---- MODULE Spec2Model ----
(***************************************************************************)
(* Model of src/app.js: the storage layer TaskDB (a JSON collection under  *)
(* one localStorage key) and the access layer TaskAPI (asynchronous        *)
(* pass-through returning {success, data?, message} envelopes).            *)
(*                                                                         *)
(* Timestamps (the strings Date.prototype.toISOString produces, which have *)
(* millisecond resolution) are represented by the millisecond count they   *)
(* denote, relative to 2025-08-17T00:00:00Z.  The wall clock `now` is      *)
(* taken to be non-decreasing and, when the page is opened, later than the *)
(* stamps of the seed records.                                             *)
(*                                                                         *)
(* Faults of the storage layer: JSON.parse throws on a stored text that is *)
(* not JSON, and localStorage.setItem throws QuotaExceededError when the   *)
(* text it is given is longer than the room left (createTask, updateTask). *)
(* deleteTask never writes a longer text than the one it read.  A          *)
(* constructor whose setItem throws leaves no TaskAPI behind, which is the *)
(* state before Load.                                                      *)
(***************************************************************************)
EXTENDS Integers, Sequences, FiniteSets, TLC

\* ---------------------------------------------------------------- bounds
\* number of create/update/delete calls in one behaviour
MaxOps == 2
\* the same, in behaviours made of create and delete calls only
MaxOpsCD == 3
\* number of milliseconds the clock advances in one behaviour
MaxTicks == 1
\* number of access-layer calls started in one behaviour of overlapping calls
MaxCalls == 2
\* number of handlers that reach the access layer in one behaviour of the page
MaxHandlers == 2
\* clock reading when the page is opened (ms after 2025-08-17T00:00:00Z)
ClockStart == 400000000

\* ------------------------------------------------------- values and inputs
\* parseInt of a string with no leading digits; NaN is equal to nothing
NaN == -1

\* TaskDB.storageKey holds one of: nothing, a JSON text of a task array, or a
\* text that is not JSON (left there by something other than this program).
Absent == [kind |-> "absent", tasks |-> <<>>]

Corrupt == [kind |-> "corrupt", tasks |-> <<>>]

\* JSON.stringify(tasks): the text of the array, record for record
Stringify(tasks) == [kind |-> "json", tasks |-> tasks]

\* { ...a, ...b }: the fields of both, those of b winning
Spread(a, b) ==
    [f \in (DOMAIN a) \cup (DOMAIN b) |-> IF f \in DOMAIN b THEN b[f] ELSE a[f]]

\* the literal seed records of initializeDatabase
sampleTasks ==
    << [id |-> 1, title |-> "Complete MEAN Stack Project",
        description |-> "Build a full-stack task management application using MongoDB, Express.js, Angular, and Node.js",
        priority |-> "High", dueDate |-> "2025-09-15", status |-> "Pending",
        createdAt |-> 295200000, updatedAt |-> 295200000],
       [id |-> 2, title |-> "Study Angular Framework",
        description |-> "Learn Angular concepts including components, services, routing, and data binding",
        priority |-> "Medium", dueDate |-> "2025-08-30", status |-> "Completed",
        createdAt |-> 138600000, updatedAt |-> 378900000],
       [id |-> 3, title |-> "Setup Development Environment",
        description |-> "Install Node.js, MongoDB, Angular CLI, and VS Code with necessary extensions",
        priority |-> "High", dueDate |-> "2025-08-22", status |-> "Completed",
        createdAt |-> 40800000, updatedAt |-> 233100000],
       [id |-> 4, title |-> "Design Database Schema",
        description |-> "Plan the MongoDB collection structure for tasks, users, and categories",
        priority |-> "Medium", dueDate |-> "2025-09-01", status |-> "Pending",
        createdAt |-> 220200000, updatedAt |-> 220200000],
       [id |-> 5, title |-> "Create REST API Endpoints",
        description |-> "Develop Express.js routes for CRUD operations on tasks",
        priority |-> "High", dueDate |-> "2025-09-05", status |-> "Pending",
        createdAt |-> 290700000, updatedAt |-> 290700000] >>

\* the object getTaskFormData builds from a filled-in form
FormData ==
    [title |-> "Write report", description |-> "", priority |-> "Low",
     dueDate |-> "2025-10-01", status |-> "Pending"]

\* field payloads handed to create and update: the status toggles, a form,
\* and objects naming the fields the storage layer itself maintains
Payloads ==
    { [status |-> "Completed"], [status |-> "Pending"], FormData,
      [id |-> 1], [createdAt |-> 0, updatedAt |-> 0] }

\* ids as the callers pass them: strings read from markup attributes
IdArgs == {"1", "2", "6", "abc"}

\* parseInt(id) on those strings
ParseInt(s) ==
    CASE s = "1" -> 1
      [] s = "2" -> 2
      [] s = "6" -> 6
      [] OTHER   -> NaN

\* a === b on numbers
StrictEq(a, b) == a # NaN /\ b # NaN /\ a = b

\* ------------------------------------------------------- results of calls
Undefined == [t |-> "undefined"]

Null == [t |-> "null"]

True == [t |-> "true"]

TaskVal(task) == [t |-> "task", v |-> task]

ListVal(tasks) == [t |-> "list", v |-> tasks]

\* a storage-layer call that returned `ret` and left `store` under the key
Return(ret, store) == [threw |-> FALSE, ret |-> ret, store |-> store, gen |-> 0]

\* a storage-layer call that threw before writing
Throw(store) == [threw |-> TRUE, ret |-> Undefined, store |-> store, gen |-> 0]

\* ------------------------------------------------------------ TaskDB
\* max of a non-empty set of numbers
Max(S) == CHOOSE m \in S : \A n \in S : n <= m

\* the positions of tasks that pass a predicate, as array.filter keeps them
RECURSIVE FilterOut(_, _)
FilterOut(tasks, n) ==
    IF tasks = <<>> THEN <<>>
    ELSE IF StrictEq(Head(tasks).id, n) THEN FilterOut(Tail(tasks), n)
         ELSE <<Head(tasks)>> \o FilterOut(Tail(tasks), n)

\* tasks.findIndex(task => task.id === n), 0 standing for -1
FindIndex(tasks, n) ==
    IF \E i \in 1..Len(tasks) : StrictEq(tasks[i].id, n)
    THEN CHOOSE i \in 1..Len(tasks) :
            /\ StrictEq(tasks[i].id, n)
            /\ \A j \in 1..(i - 1) : ~StrictEq(tasks[j].id, n)
    ELSE 0

\* initializeDatabase without its guard
initializeDatabase_always(ls) == Stringify(sampleTasks)

initializeDatabase(ls) ==
    IF ls.kind = "absent" THEN Stringify(sampleTasks) ELSE ls

getAllTasks(ls) ==
    CASE ls.kind = "absent"  -> Return(ListVal(<<>>), ls)
      [] ls.kind = "json"    -> Return(ListVal(ls.tasks), ls)
      [] ls.kind = "corrupt" -> Throw(ls)

getTaskById(ls, id) ==
    LET all == getAllTasks(ls) IN
    IF all.threw THEN Throw(ls)
    ELSE LET tasks == all.ret.v
             i == FindIndex(tasks, ParseInt(id))
         IN  IF i = 0 THEN Return(Undefined, ls) ELSE Return(TaskVal(tasks[i]), ls)

\* generateId counting the records instead of taking the largest id
generateId_count(ls) ==
    LET all == getAllTasks(ls) IN
    IF all.threw THEN Throw(ls)
    ELSE Return(Len(all.ret.v) + 1, ls)

generateId(ls) ==
    LET all == getAllTasks(ls) IN
    IF all.threw THEN Throw(ls)
    ELSE LET tasks == all.ret.v IN
         IF Len(tasks) > 0
         THEN Return(Max({tasks[i].id : i \in 1..Len(tasks)}) + 1, ls)
         ELSE Return(1, ls)

\* t1, t2: the two clock readings; quota: setItem throws QuotaExceededError
createTask(ls, taskData, t1, t2, quota) ==
    LET all == getAllTasks(ls) IN
    IF all.threw THEN Throw(ls)
    ELSE LET g == generateId(ls)
             newTask == Spread(Spread([id |-> g.ret], taskData),
                               [createdAt |-> t1, updatedAt |-> t2])
             tasks == Append(all.ret.v, newTask)
         IN  IF quota THEN [Throw(ls) EXCEPT !.gen = g.ret]
             ELSE [Return(TaskVal(newTask), Stringify(tasks)) EXCEPT !.gen = g.ret]

\* updateTask storing the payload in place of the record (no merge)
updateTask_replace(ls, id, updateData, t, quota) ==
    LET all == getAllTasks(ls) IN
    IF all.threw THEN Throw(ls)
    ELSE LET tasks == all.ret.v
             taskIndex == FindIndex(tasks, ParseInt(id))
         IN  IF taskIndex # 0
             THEN LET merged == Spread(Spread([id |-> tasks[taskIndex].id], updateData),
                                       [updatedAt |-> t])
                      written == [tasks EXCEPT ![taskIndex] = merged]
                  IN  IF quota THEN Throw(ls)
                      ELSE Return(TaskVal(merged), Stringify(written))
             ELSE Return(Null, ls)

\* updateTask with updatedAt spread before the payload instead of after it
updateTask_stale(ls, id, updateData, t, quota) ==
    LET all == getAllTasks(ls) IN
    IF all.threw THEN Throw(ls)
    ELSE LET tasks == all.ret.v
             taskIndex == FindIndex(tasks, ParseInt(id))
         IN  IF taskIndex # 0
             THEN LET merged == Spread(Spread(tasks[taskIndex], [updatedAt |-> t]),
                                       updateData)
                      written == [tasks EXCEPT ![taskIndex] = merged]
                  IN  IF quota THEN Throw(ls)
                      ELSE Return(TaskVal(merged), Stringify(written))
             ELSE Return(Null, ls)

\* updateTask inserting the record when the id is not found
updateTask_upsert(ls, id, updateData, t, quota) ==
    LET all == getAllTasks(ls) IN
    IF all.threw THEN Throw(ls)
    ELSE LET tasks == all.ret.v
             taskIndex == FindIndex(tasks, ParseInt(id))
             merged == Spread(Spread(IF taskIndex # 0 THEN tasks[taskIndex]
                                     ELSE [id |-> ParseInt(id)], updateData),
                              [updatedAt |-> t])
             written == IF taskIndex # 0 THEN [tasks EXCEPT ![taskIndex] = merged]
                        ELSE Append(tasks, merged)
         IN  IF quota THEN Throw(ls)
             ELSE Return(TaskVal(merged), Stringify(written))

updateTask(ls, id, updateData, t, quota) ==
    LET all == getAllTasks(ls) IN
    IF all.threw THEN Throw(ls)
    ELSE LET tasks == all.ret.v
             taskIndex == FindIndex(tasks, ParseInt(id))
         IN  IF taskIndex # 0
             THEN LET merged == Spread(Spread(tasks[taskIndex], updateData),
                                       [updatedAt |-> t])
                      written == [tasks EXCEPT ![taskIndex] = merged]
                  IN  IF quota THEN Throw(ls)
                      ELSE Return(TaskVal(merged), Stringify(written))
             ELSE Return(Null, ls)

\* deleteTask that filters and does not store the result
deleteTask_unsaved(ls, id) ==
    LET all == getAllTasks(ls) IN
    IF all.threw THEN Throw(ls)
    ELSE Return(True, ls)

\* the text written is never longer than the one read: no quota fault
deleteTask(ls, id) ==
    LET all == getAllTasks(ls) IN
    IF all.threw THEN Throw(ls)
    ELSE Return(True, Stringify(FilterOut(all.ret.v, ParseInt(id))))

\* ------------------------------------------------------------ TaskAPI
\* what an async method's promise settles to
Resolved(envelope) == [settled |-> "resolved", value |-> envelope]

Rejected == [settled |-> "rejected", value |-> [success |-> FALSE, message |-> "uncaught"]]

Ok(data, message) == [success |-> TRUE, data |-> data, message |-> message]

Fail(message) == [success |-> FALSE, message |-> message]

\* each method: the storage-layer call it makes and the settled promise
TaskAPI_getTasks(ls) ==
    LET r == getAllTasks(ls) IN
    [db |-> r,
     res |-> IF r.threw THEN Rejected
             ELSE Resolved(Ok(r.ret, "Tasks retrieved successfully"))]

TaskAPI_getTask(ls, id) ==
    LET r == getTaskById(ls, id) IN
    [db |-> r,
     res |-> IF r.threw THEN Rejected
             ELSE IF r.ret.t = "task"
                  THEN Resolved(Ok(r.ret, "Task retrieved successfully"))
                  ELSE Resolved(Fail("Task not found"))]

TaskAPI_createTask(ls, taskData, t1, t2, quota) ==
    LET r == createTask(ls, taskData, t1, t2, quota) IN
    [db |-> r,
     res |-> IF r.threw THEN Resolved(Fail("Failed to create task"))
             ELSE Resolved(Ok(r.ret, "Task created successfully"))]

TaskAPI_updateTask(ls, id, updateData, t, quota) ==
    LET r == updateTask(ls, id, updateData, t, quota) IN
    [db |-> r,
     res |-> IF r.threw THEN Resolved(Fail("Failed to update task"))
             ELSE IF r.ret.t = "task"
                  THEN Resolved(Ok(r.ret, "Task updated successfully"))
                  ELSE Resolved(Fail("Task not found"))]

TaskAPI_deleteTask(ls, id) ==
    LET r == deleteTask(ls, id) IN
    [db |-> r,
     res |-> IF r.threw THEN Resolved(Fail("Failed to delete task"))
             ELSE Resolved([success |-> TRUE, message |-> "Task deleted successfully"])]

\* ------------------------------------------------------------ state
VARIABLES
    localStorage,   \* what is stored under TaskDB.storageKey
    loaded,         \* a TaskAPI (and its TaskDB) has been constructed
    now,            \* the wall clock, in ms
    ops,            \* create/update/delete calls made so far
    last,           \* the latest call: its arguments, storage result, promise
    assigned,       \* the ids generateId gave to created tasks, in order
    pending,        \* access-layer calls suspended in delay(), in timer order
    done,           \* the calls whose delay has expired, in that order
    app             \* the fields of AppComponent and of its forms

vars == <<localStorage, loaded, now, ops, last, assigned, pending, done, app>>

\* what the calls made one at a time leave alone
asyncVars == <<pending, done, app>>

\* no AppComponent has been constructed
NoApp == [page |-> "none"]

NoArgs == [x \in {} |-> 0]

Call(op, id, data, out) ==
    [op |-> op, id |-> id, data |-> data, db |-> out.db, res |-> out.res]

\* the page is opened: storage holds nothing, an emptied collection written
\* by an earlier visit, or a text that is not JSON
Init ==
    /\ localStorage \in {Absent, Stringify(<<>>), Corrupt}
    /\ loaded = FALSE
    /\ now = ClockStart
    /\ ops = 0
    /\ last = [op |-> "none"]
    /\ assigned = <<>>
    /\ pending = <<>>
    /\ done = <<>>
    /\ app = NoApp

\* new TaskAPI() -> new TaskDB() -> initializeDatabase(); also every reload
Load ==
    /\ localStorage' = initializeDatabase(localStorage)
    /\ loaded' = TRUE
    /\ last' = [op |-> "initialize"]
    /\ UNCHANGED <<now, ops, assigned>>
    /\ UNCHANGED asyncVars

\* a millisecond passes
Tick ==
    /\ now < ClockStart + MaxTicks
    /\ now' = now + 1
    /\ UNCHANGED <<localStorage, loaded, ops, last, assigned>>
    /\ UNCHANGED asyncVars

GetTasks ==
    /\ loaded
    /\ last' = Call("getTasks", "", NoArgs, TaskAPI_getTasks(localStorage))
    /\ UNCHANGED <<localStorage, loaded, now, ops, assigned>>
    /\ UNCHANGED asyncVars

GetTask(id) ==
    /\ loaded
    /\ last' = Call("getTask", id, NoArgs, TaskAPI_getTask(localStorage, id))
    /\ UNCHANGED <<localStorage, loaded, now, ops, assigned>>
    /\ UNCHANGED asyncVars

\* d: the clock may move on between the two `new Date()` of createTask
CreateTask(taskData, d, quota) ==
    /\ loaded
    /\ now + d <= ClockStart + MaxTicks
    /\ LET out == TaskAPI_createTask(localStorage, taskData, now, now + d, quota) IN
        /\ localStorage' = out.db.store
        /\ last' = Call("createTask", "", taskData, out)
        /\ assigned' = IF ~out.db.threw /\ "id" \notin DOMAIN taskData
                       THEN Append(assigned, out.db.gen) ELSE assigned
    /\ now' = now + d
    /\ ops' = ops + 1
    /\ UNCHANGED loaded
    /\ UNCHANGED asyncVars

UpdateTask(id, updateData, quota) ==
    /\ loaded
    /\ LET out == TaskAPI_updateTask(localStorage, id, updateData, now, quota) IN
        /\ localStorage' = out.db.store
        /\ last' = Call("updateTask", id, updateData, out)
    /\ ops' = ops + 1
    /\ UNCHANGED <<loaded, now, assigned>>
    /\ UNCHANGED asyncVars

DeleteTask(id) ==
    /\ loaded
    /\ LET out == TaskAPI_deleteTask(localStorage, id) IN
        /\ localStorage' = out.db.store
        /\ last' = Call("deleteTask", id, NoArgs, out)
    /\ ops' = ops + 1
    /\ UNCHANGED <<loaded, now, assigned>>
    /\ UNCHANGED asyncVars

Next ==
    \/ Load
    \/ Tick
    \/ GetTasks
    \/ \E id \in IdArgs : GetTask(id)
    \/ \E taskData \in Payloads, d \in {0, 1}, quota \in BOOLEAN :
          ops < MaxOps /\ CreateTask(taskData, d, quota)
    \/ \E id \in IdArgs, updateData \in Payloads, quota \in BOOLEAN :
          ops < MaxOps /\ UpdateTask(id, updateData, quota)
    \/ \E id \in IdArgs :
          ops < MaxOps /\ DeleteTask(id)

Spec == Init /\ [][Next]_vars

\* the storage layer driven by create and delete calls only
NextCD ==
    \/ Load
    \/ Tick
    \/ \E taskData \in Payloads, d \in {0, 1}, quota \in BOOLEAN :
          ops < MaxOpsCD /\ CreateTask(taskData, d, quota)
    \/ \E id \in IdArgs :
          ops < MaxOpsCD /\ DeleteTask(id)

SpecCD == Init /\ [][NextCD]_vars

\* ------------------------------------------------- calls in their delay
\* Every TaskAPI method starts with `await this.delay(ms)`: the call is
\* suspended on a timer and its body runs, without interruption, when the
\* timer fires.  Timers fire in the order of their due times, so the queue
\* below is kept in that order.

\* the delay of each method
Delay(op) == IF op \in {"getTasks", "getTask"} THEN 50 ELSE 100

\* the queues that can result from starting `call` now: behind every call
\* already suspended if its delay is 100, and anywhere behind the last
\* suspended call of delay 50 if its delay is 50
Enqueue(queue, call) ==
    IF Delay(call.op) = 100
    THEN {Append(queue, call)}
    ELSE LET short == {i \in 1..Len(queue) : Delay(queue[i].op) = 50}
             from == IF short = {} THEN 0 ELSE Max(short)
         IN  {SubSeq(queue, 1, i) \o <<call>> \o SubSeq(queue, i + 1, Len(queue)) :
                 i \in from..Len(queue)}

\* the body of the method after its await, on the storage as it is then
Settle(call, ls, t, d, quota) ==
    CASE call.op = "getTasks"   -> TaskAPI_getTasks(ls)
      [] call.op = "getTask"    -> TaskAPI_getTask(ls, call.id)
      [] call.op = "createTask" -> TaskAPI_createTask(ls, call.data, t, t + d, quota)
      [] call.op = "updateTask" -> TaskAPI_updateTask(ls, call.id, call.data, t, quota)
      [] call.op = "deleteTask" -> TaskAPI_deleteTask(ls, call.id)

\* the inputs that make a difference to the body of `op`
Relevant(op, d, quota) ==
    /\ d = 1 => op = "createTask"
    /\ quota => op \in {"createTask", "updateTask"}
    /\ now + d <= ClockStart + MaxTicks

\* arguments of the calls started while others are suspended
AsyncIds == {"1", "6"}

AsyncPayloads == {[status |-> "Completed"], FormData}

AsyncCalls ==
    {[op |-> "getTasks", id |-> "", data |-> NoArgs]}
    \cup {[op |-> "getTask", id |-> id, data |-> NoArgs] : id \in AsyncIds}
    \cup {[op |-> "createTask", id |-> "", data |-> data] : data \in AsyncPayloads}
    \cup {[op |-> "updateTask", id |-> id, data |-> data] :
             id \in AsyncIds, data \in AsyncPayloads}
    \cup {[op |-> "deleteTask", id |-> id, data |-> NoArgs] : id \in AsyncIds}

\* the TaskAPI exists: its constructor has seeded an empty storage and left a
\* stored text alone
InitAsync ==
    /\ localStorage \in {initializeDatabase(Absent), initializeDatabase(Corrupt)}
    /\ loaded = TRUE
    /\ now = ClockStart
    /\ ops = 0
    /\ last = [op |-> "initialize"]
    /\ assigned = <<>>
    /\ pending = <<>>
    /\ done = <<>>
    /\ app = NoApp

\* a caller invokes a method: the call is numbered and suspended; `at` is the
\* number of calls that had settled by then
Initiate(c) ==
    /\ loaded
    /\ LET call == [n |-> Len(pending) + Len(done) + 1, at |-> Len(done),
                    op |-> c.op, id |-> c.id, data |-> c.data]
       IN  pending' \in Enqueue(pending, call)
    /\ UNCHANGED <<localStorage, loaded, now, ops, last, assigned, done, app>>

\* the earliest timer fires and the body of its call runs to its return
Complete(d, quota) ==
    /\ pending # <<>>
    /\ Relevant(Head(pending).op, d, quota)
    /\ LET call == Head(pending)
           out == Settle(call, localStorage, now, d, quota)
       IN  /\ localStorage' = out.db.store
           /\ last' = Call(call.op, call.id, call.data, out)
           /\ done' = Append(done, [n |-> call.n, at |-> call.at, op |-> call.op,
                                    id |-> call.id, data |-> call.data,
                                    res |-> out.res])
    /\ pending' = Tail(pending)
    /\ now' = now + d
    /\ UNCHANGED <<loaded, ops, assigned, app>>

\* a millisecond passes while calls are suspended
TickAsync ==
    /\ now < ClockStart + MaxTicks
    /\ now' = now + 1
    /\ UNCHANGED <<localStorage, loaded, ops, last, assigned, pending, done, app>>

NextAsync ==
    \/ TickAsync
    \/ \E c \in AsyncCalls :
          Len(pending) + Len(done) < MaxCalls /\ Initiate(c)
    \/ \E d \in {0, 1}, quota \in BOOLEAN : Complete(d, quota)

SpecAsync == InitAsync /\ [][NextAsync]_vars

\* ------------------------------------------------------------ AppComponent
\* what the user types into the title fields and the search box
TitleInputs == {" Write report ", "   ", ""}

SearchInputs == {"", "  ", "ANGULAR"}

\* String.prototype.trim on the texts of the model
Trim(s) ==
    CASE s = " Write report " -> "Write report"
      [] s = "   " -> ""
      [] s = "  " -> ""
      [] OTHER -> s

\* String.prototype.toLowerCase on the texts of the model
ToLowerCase(s) ==
    CASE s = "Complete MEAN Stack Project" ->
              "complete mean stack project"
      [] s = "Study Angular Framework" ->
              "study angular framework"
      [] s = "Setup Development Environment" ->
              "setup development environment"
      [] s = "Design Database Schema" ->
              "design database schema"
      [] s = "Create REST API Endpoints" ->
              "create rest api endpoints"
      [] s = "Build a full-stack task management application using MongoDB, Express.js, Angular, and Node.js" ->
              "build a full-stack task management application using mongodb, express.js, angular, and node.js"
      [] s = "Learn Angular concepts including components, services, routing, and data binding" ->
              "learn angular concepts including components, services, routing, and data binding"
      [] s = "Install Node.js, MongoDB, Angular CLI, and VS Code with necessary extensions" ->
              "install node.js, mongodb, angular cli, and vs code with necessary extensions"
      [] s = "Plan the MongoDB collection structure for tasks, users, and categories" ->
              "plan the mongodb collection structure for tasks, users, and categories"
      [] s = "Develop Express.js routes for CRUD operations on tasks" ->
              "develop express.js routes for crud operations on tasks"
      [] s = "Write report" ->
              "write report"
      [] s = "ANGULAR" ->
              "angular"
      [] OTHER -> s

\* the (text, query) pairs of lower-cased texts where the query occurs in the
\* text, the empty query aside
Substrings ==
    { <<"study angular framework",
          "angular">>,
      <<"build a full-stack task management application using mongodb, express.js, angular, and node.js",
          "angular">>,
      <<"learn angular concepts including components, services, routing, and data binding",
          "angular">>,
      <<"install node.js, mongodb, angular cli, and vs code with necessary extensions",
          "angular">> }

\* text.includes(query)
Includes(text, query) == query = "" \/ <<text, query>> \in Substrings

\* the ids on the cards the user clicks
CardIds == {"1", "6"}

\* the task form with nothing filled in
EmptyForm ==
    [id |-> "", title |-> "", description |-> "", priority |-> "",
     dueDate |-> "", status |-> ""]

\* array.sort((a, b) => new Date(b.createdAt) - new Date(a.createdAt)): newest
\* first, equal dates in their earlier order
RECURSIVE SortNewestFirst(_)
SortNewestFirst(tasks) ==
    IF tasks = <<>> THEN <<>>
    ELSE LET sorted == SortNewestFirst(SubSeq(tasks, 1, Len(tasks) - 1))
             x == tasks[Len(tasks)]
             before == {i \in 1..Len(sorted) : sorted[i].createdAt >= x.createdAt}
             k == IF before = {} THEN 0 ELSE Max(before)
         IN  SubSeq(sorted, 1, k) \o <<x>> \o SubSeq(sorted, k + 1, Len(sorted))

\* renderDashboard sorts the cached array in place
renderDashboard(a) == [a EXCEPT !.tasks = SortNewestFirst(a.tasks)]

navigateTo(a, page) ==
    LET b == [a EXCEPT !.page = page] IN
    IF page = "dashboard" THEN renderDashboard(b) ELSE b

getFilteredTasksByStatus(a) ==
    CASE a.currentFilter = "pending" ->
            SelectSeq(a.tasks, LAMBDA task : task.status = "Pending")
      [] a.currentFilter = "completed" ->
            SelectSeq(a.tasks, LAMBDA task : task.status = "Completed")
      [] OTHER -> a.tasks

applyCurrentFilter(a) == [a EXCEPT !.filteredTasks = getFilteredTasksByStatus(a)]

searchTasks(a, query) ==
    IF Trim(query) = "" THEN applyCurrentFilter(a)
    ELSE [a EXCEPT !.filteredTasks =
            SelectSeq(getFilteredTasksByStatus(a),
                      LAMBDA task :
                         \/ Includes(ToLowerCase(task.title), ToLowerCase(query))
                         \/ Includes(ToLowerCase(task.description), ToLowerCase(query)))]

setFilter(a, filter) == applyCurrentFilter([a EXCEPT !.currentFilter = filter])

\* loadTasks dropping the list it was sent
loadTasks_keep(a, res) == a

\* loadTasks once its getTasks call has settled with `res`
loadTasks(a, res) ==
    IF res.settled = "resolved" /\ res.value.success
    THEN applyCurrentFilter([a EXCEPT !.tasks = res.value.data.v])
    ELSE a

\* the re-render of the current page after a toggle or a delete
rerender(a) == IF a.page = "dashboard" THEN renderDashboard(a) ELSE a

hideDeleteModal(a) == [a EXCEPT !.deleteTaskId = ""]

\* String(id), as assigning a number to an input's value stores it
StringOf(n) ==
    CASE n = 1 -> "1" [] n = 2 -> "2" [] n = 3 -> "3" [] n = 4 -> "4"
      [] n = 5 -> "5" [] n = 6 -> "6" [] n = 7 -> "7" [] n = 8 -> "8"
      [] OTHER -> "NaN"

populateEditForm(a, task) ==
    [a EXCEPT !.edit = [id |-> StringOf(task.id), title |-> task.title,
                        description |-> task.description,
                        priority |-> task.priority, dueDate |-> task.dueDate,
                        status |-> task.status]]

\* the task form holds `title` and the values of FormData in its other fields
getTaskFormData(title) ==
    [title |-> Trim(title), description |-> Trim(FormData.description),
     priority |-> FormData.priority, dueDate |-> FormData.dueDate,
     status |-> "Pending"]

\* the edit form as populated, with `title` typed into its title field
getEditTaskFormData(a, title) ==
    [title |-> Trim(title), description |-> Trim(a.edit.description),
     priority |-> a.edit.priority, dueDate |-> a.edit.dueDate,
     status |-> a.edit.status]

\* validateTaskForm accepting every title
validateTaskForm_lax(data) == TRUE

validateTaskForm(data) == data.title # ""

validateEditTaskForm(data) == data.title # ""

\* a call made by a handler; `k` is the handler's code after the await
AppCall(op, id, data, k) ==
    [n |-> 0, at |-> 0, op |-> op, id |-> id, data |-> data, k |-> k]

\* new AppComponent(): the constructor has run and init is awaiting loadTasks
InitApp ==
    /\ localStorage \in {initializeDatabase(Absent), initializeDatabase(Corrupt)}
    /\ loaded = TRUE
    /\ now = ClockStart
    /\ ops = 0
    /\ last = [op |-> "initialize"]
    /\ assigned = <<>>
    /\ done = <<>>
    /\ pending = <<AppCall("getTasks", "", NoArgs, "init")>>
    /\ app = [page |-> "dashboard", ready |-> FALSE, tasks |-> <<>>,
              filteredTasks |-> <<>>, currentFilter |-> "all",
              editingTaskId |-> "", deleteTaskId |-> "", search |-> "",
              edit |-> EmptyForm, titleError |-> FALSE, editTitleError |-> FALSE]

appFrame == <<localStorage, loaded, now, last, assigned, done>>

\* a click on a navigation link, an add-task button or a cancel button
NavigateTo(page) ==
    /\ app.ready
    /\ app' = navigateTo(app, page)
    /\ UNCHANGED <<appFrame, ops, pending>>

\* a click on a filter button of the task list
SetFilter(filter) ==
    /\ app.ready /\ app.page = "tasks"
    /\ app' = setFilter(app, filter)
    /\ UNCHANGED <<appFrame, ops, pending>>

\* the search box now reads `query`
HandleSearch(query) ==
    /\ app.ready /\ app.page = "tasks"
    /\ app' = searchTasks([app EXCEPT !.search = query], query)
    /\ UNCHANGED <<appFrame, ops, pending>>

\* submit of the task form holding `title`
HandleTaskSubmit(title) ==
    /\ app.ready /\ app.page = "add-task"
    /\ LET formData == getTaskFormData(title) IN
       IF ~validateTaskForm(formData)
       THEN /\ app' = [app EXCEPT !.titleError = TRUE]
            /\ UNCHANGED <<ops, pending>>
       ELSE /\ app' = [app EXCEPT !.titleError = FALSE]
            /\ ops' = ops + 1
            /\ pending' \in Enqueue(pending, AppCall("createTask", "", formData, "submit"))
    /\ UNCHANGED appFrame

\* a click on the edit button of a card
EditTask(taskId) ==
    /\ app.ready /\ app.page \in {"dashboard", "tasks"}
    /\ LET i == FindIndex(app.tasks, ParseInt(taskId)) IN
       /\ i # 0
       /\ app' = navigateTo(populateEditForm([app EXCEPT !.editingTaskId = taskId],
                                             app.tasks[i]),
                            "edit-task")
    /\ UNCHANGED <<appFrame, ops, pending>>

\* submit of the edit form with `title` in its title field
HandleEditTaskSubmit(title) ==
    /\ app.ready /\ app.page = "edit-task"
    /\ LET taskId == app.edit.id
           formData == getEditTaskFormData(app, title)
       IN  IF ~validateEditTaskForm(formData)
           THEN /\ app' = [app EXCEPT !.editTitleError = TRUE]
                /\ UNCHANGED <<ops, pending>>
           ELSE /\ app' = [app EXCEPT !.editTitleError = FALSE]
                /\ ops' = ops + 1
                /\ pending' \in Enqueue(pending,
                                        AppCall("updateTask", taskId, formData, "submit"))
    /\ UNCHANGED appFrame

\* a click on the status button of a card
ToggleTaskStatus(taskId) ==
    /\ app.ready /\ app.page \in {"dashboard", "tasks"}
    /\ LET i == FindIndex(app.tasks, ParseInt(taskId)) IN
       /\ i # 0
       /\ LET newStatus == IF app.tasks[i].status = "Completed"
                           THEN "Pending" ELSE "Completed"
          IN  pending' \in Enqueue(pending,
                                   AppCall("updateTask", taskId,
                                           [status |-> newStatus], "toggle"))
    /\ ops' = ops + 1
    /\ UNCHANGED <<appFrame, app>>

\* a click on the delete button of a card
ShowDeleteModal(taskId) ==
    /\ app.ready /\ app.page \in {"dashboard", "tasks"}
    /\ FindIndex(app.tasks, ParseInt(taskId)) # 0
    /\ app' = [app EXCEPT !.deleteTaskId = taskId]
    /\ UNCHANGED <<appFrame, ops, pending>>

\* a click on the modal's cancel button or its overlay
HideDeleteModal ==
    /\ app.ready /\ app.deleteTaskId # ""
    /\ app' = hideDeleteModal(app)
    /\ UNCHANGED <<appFrame, ops, pending>>

\* a click on the modal's confirm button
ConfirmDelete ==
    /\ app.ready /\ app.deleteTaskId # ""
    /\ pending' \in Enqueue(pending,
                            AppCall("deleteTask", app.deleteTaskId, NoArgs, "delete"))
    /\ ops' = ops + 1
    /\ UNCHANGED <<appFrame, app>>

\* the earliest timer fires: the method's body runs, then the code of the
\* handler that awaited it, up to the handler's next await or its end
Resume(d, quota) ==
    /\ pending # <<>>
    /\ Relevant(Head(pending).op, d, quota)
    /\ LET call == Head(pending)
           out == Settle(call, localStorage, now, d, quota)
           ok == out.res.settled = "resolved" /\ out.res.value.success
           reload == AppCall("getTasks", "", NoArgs, call.k \o "-reload")
       IN  /\ localStorage' = out.db.store
           /\ last' = Call(call.op, call.id, call.data, out)
           /\ CASE call.k = "init" ->
                      /\ app' = renderDashboard([loadTasks(app, out.res) EXCEPT !.ready = TRUE])
                      /\ pending' = Tail(pending)
                [] call.k \in {"submit", "toggle", "delete"} /\ ok ->
                      /\ app' = app
                      /\ pending' \in Enqueue(Tail(pending), reload)
                [] call.k \in {"submit", "toggle"} /\ ~ok ->
                      /\ app' = app
                      /\ pending' = Tail(pending)
                [] call.k = "delete" /\ ~ok ->
                      /\ app' = hideDeleteModal(app)
                      /\ pending' = Tail(pending)
                [] call.k = "submit-reload" ->
                      /\ app' = navigateTo(renderDashboard(loadTasks(app, out.res)), "tasks")
                      /\ pending' = Tail(pending)
                [] call.k = "toggle-reload" ->
                      /\ app' = rerender(loadTasks(app, out.res))
                      /\ pending' = Tail(pending)
                [] call.k = "delete-reload" ->
                      /\ app' = hideDeleteModal(rerender(loadTasks(app, out.res)))
                      /\ pending' = Tail(pending)
    /\ now' = now + d
    /\ UNCHANGED <<loaded, ops, assigned, done>>

\* the page with its forms and cards in use. The filter buttons and the search
\* box are left alone here: they write currentFilter and filteredTasks only,
\* which no handler below reads on its way to the access layer
NextApp ==
    \/ \E page \in {"dashboard", "tasks", "add-task"} : NavigateTo(page)
    \/ \E title \in TitleInputs : ops < MaxHandlers /\ HandleTaskSubmit(title)
    \/ \E taskId \in CardIds : EditTask(taskId)
    \/ \E title \in TitleInputs \cup {app.edit.title} :
          ops < MaxHandlers /\ HandleEditTaskSubmit(title)
    \/ \E taskId \in CardIds : ops < MaxHandlers /\ ToggleTaskStatus(taskId)
    \/ \E taskId \in CardIds : ShowDeleteModal(taskId)
    \/ HideDeleteModal
    \/ ops < MaxHandlers /\ ConfirmDelete
    \/ \E d \in {0, 1}, quota \in BOOLEAN : Resume(d, quota)

SpecApp == InitApp /\ [][NextApp]_vars

\* the task list in use: filter buttons, search box, and status buttons whose
\* handlers reload the cached collection
NextView ==
    \/ \E page \in {"dashboard", "tasks"} : NavigateTo(page)
    \/ \E filter \in {"all", "pending", "completed"} : SetFilter(filter)
    \/ \E query \in SearchInputs : HandleSearch(query)
    \/ \E taskId \in CardIds : ops < MaxHandlers /\ ToggleTaskStatus(taskId)
    \/ \E d \in {0, 1}, quota \in BOOLEAN : Resume(d, quota)

SpecView == InitApp /\ [][NextView]_vars

\* ------------------------------------------------------------ properties
\* the ids of a task array, and the largest of them (0 for none)
Ids(tasks) == {tasks[i].id : i \in 1..Len(tasks)}

MaxId(tasks) == IF tasks = <<>> THEN 0 ELSE Max(Ids(tasks))

\* i is where findIndex / find stop for the id argument
Hit(tasks, id, i) ==
    /\ i \in 1..Len(tasks)
    /\ StrictEq(tasks[i].id, ParseInt(id))
    /\ \A j \in 1..(i - 1) : ~StrictEq(tasks[j].id, ParseInt(id))

\* no record answers to the id argument
NoMatch(tasks, id) == \A i \in 1..Len(tasks) : ~StrictEq(tasks[i].id, ParseInt(id))

\* the step is a create / update / delete / getTask call (the call's arguments
\* are in last')
CreateStep ==
    /\ ops' = ops + 1
    /\ last'.op = "createTask"
    /\ \E d \in {0, 1} : CreateTask(last'.data, d, last'.db.threw)

UpdateStep ==
    /\ ops' = ops + 1
    /\ last'.op = "updateTask"
    /\ \E quota \in BOOLEAN : UpdateTask(last'.id, last'.data, quota)

DeleteStep ==
    /\ ops' = ops + 1
    /\ last'.op = "deleteTask"
    /\ DeleteTask(last'.id)

GetTaskStep ==
    /\ last'.op = "getTask"
    /\ GetTask(last'.id)

\* C1: no two records of the persisted collection have the same id, whatever
\* initialize, create, update and delete calls were made with whatever payload.
C1_UniqueIds ==
    \A i, j \in 1..Len(localStorage.tasks) :
        i # j => localStorage.tasks[i].id # localStorage.tasks[j].id

\* C2: a create that the storage layer completes appends one record whose id
\* is the maximum stored id plus one (1 on an empty collection), returns that
\* record, and leaves the records before it as they were.
C2_CreateAssignsNextId ==
    [][(CreateStep /\ ~last'.db.threw /\ localStorage.kind = "json") =>
             LET old == localStorage.tasks
                 new == localStorage'.tasks
             IN  /\ localStorage'.kind = "json"
                 /\ Len(new) = Len(old) + 1
                 /\ SubSeq(new, 1, Len(old)) = old
                 /\ new[Len(new)].id = MaxId(old) + 1
                 /\ last'.db.ret.t = "task"
                 /\ last'.db.ret.v = new[Len(new)]]_vars

\* C3 (as claimed): over create and delete calls, the id the storage layer
\* assigns to a new task is greater than every id it assigned before, so no
\* id is assigned twice.
C3_IdsNeverReused ==
    [][(CreateStep /\ ~last'.db.threw /\ localStorage.kind = "json"
             /\ "id" \notin DOMAIN last'.data) =>
             \A k \in 1..Len(assigned) : last'.db.gen > assigned[k]]_vars

\* C3 (amended): the id generateId computes for a create is the maximum id
\* now stored plus one (1 on an empty collection), so it is greater than the
\* id of every record still in the collection; ids of deleted records are not
\* remembered.
C3_IdAboveStored ==
    [][(CreateStep /\ localStorage.kind = "json") =>
             /\ last'.db.gen = MaxId(localStorage.tasks) + 1
             /\ \A i \in 1..Len(localStorage.tasks) :
                   last'.db.gen > localStorage.tasks[i].id
             /\ "id" \notin DOMAIN last'.data /\ ~last'.db.threw =>
                   localStorage'.tasks[Len(localStorage'.tasks)].id = last'.db.gen]_vars

\* C3 witness: the storage layer has assigned the same id to two creates
C3_Witness ==
    /\ last.op = "createTask"
    /\ \E k, l \in 1..Len(assigned) : k < l /\ assigned[k] = assigned[l]

\* C4: initialize writes the five seed records exactly when nothing is stored
\* under the key, and otherwise leaves what is stored as it is.
C4_InitializeSeedsOnce ==
    [][Load =>
          IF localStorage.kind = "absent"
          THEN /\ localStorage'.kind = "json"
               /\ Len(localStorage'.tasks) = 5
               /\ \A i \in 1..5 : localStorage'.tasks[i].id = i
               /\ localStorage'.tasks = sampleTasks
          ELSE localStorage' = localStorage]_vars

\* C4 witness: initialize ran on a collection that calls had changed
C4_Witness ==
    /\ last.op = "initialize"
    /\ ops > 0
    /\ localStorage.kind = "json"
    /\ localStorage.tasks # sampleTasks

\* C5: an update of an existing id changes, in the record it finds, only the
\* fields the payload names and updatedAt; every other field of that record,
\* every other record, the length and the order stay as they were.
C5_UpdateFrame ==
    [][(UpdateStep /\ last'.db.ret.t = "task") =>
             LET old == localStorage.tasks
                 new == localStorage'.tasks
                 id == last'.id
                 updateData == last'.data
             IN  /\ Len(new) = Len(old)
                 /\ \E i \in 1..Len(old) :
                       /\ Hit(old, id, i)
                       /\ \A j \in 1..Len(old) : j # i => new[j] = old[j]
                       /\ DOMAIN new[i] =
                             (DOMAIN old[i]) \cup (DOMAIN updateData) \cup {"updatedAt"}
                       /\ \A f \in DOMAIN old[i] :
                             f \notin (DOMAIN updateData) \cup {"updatedAt"} =>
                                new[i][f] = old[i][f]
                       /\ \A f \in (DOMAIN updateData) \ {"updatedAt"} :
                             new[i][f] = updateData[f]
                       /\ last'.db.ret.v = new[i]]_vars

\* C5 witness: update(id, {status: "Completed"}) found its record
C5_Witness ==
    /\ last.op = "updateTask"
    /\ last.db.ret.t = "task"
    /\ DOMAIN last.data = {"status"}
    /\ last.data.status = "Completed"
    /\ last.db.ret.v.status = "Completed"

\* C6: no update call changes the createdAt of any stored record.
C6_CreatedAtFixed ==
    [][UpdateStep =>
             /\ Len(localStorage'.tasks) = Len(localStorage.tasks)
             /\ \A i \in 1..Len(localStorage.tasks) :
                   localStorage'.tasks[i].createdAt = localStorage.tasks[i].createdAt]_vars

\* C7 (as claimed): a successful update leaves the record with an updatedAt
\* strictly later than the one it had.
C7_UpdatedAtStrictlyLater ==
    [][(UpdateStep /\ last'.db.ret.t = "task") =>
             \E i \in 1..Len(localStorage.tasks) :
                /\ Hit(localStorage.tasks, last'.id, i)
                /\ localStorage'.tasks[i].updatedAt > localStorage.tasks[i].updatedAt]_vars

\* C7 (amended): a successful update sets the record's updatedAt to the clock
\* reading of the update, whatever the payload says; with a clock that does
\* not run backwards that is never earlier than the value it had, and it is
\* the same value when both were stamped in the same millisecond.
C7_UpdatedAtRefreshed ==
    [][(UpdateStep /\ last'.db.ret.t = "task") =>
             \E i \in 1..Len(localStorage.tasks) :
                /\ Hit(localStorage.tasks, last'.id, i)
                /\ localStorage'.tasks[i].updatedAt = now
                /\ localStorage'.tasks[i].updatedAt >= localStorage.tasks[i].updatedAt]_vars

\* C7 witness: a record was updated in the millisecond it was created in
C7_Witness ==
    /\ last.op = "updateTask"
    /\ last.db.ret.t = "task"
    /\ last.db.ret.v.updatedAt = last.db.ret.v.createdAt
    /\ last.db.ret.v.updatedAt = now

\* C8: update and getById with an id no record has report absence (null /
\* undefined from the storage layer, success=false and "Task not found" from
\* the access layer) and leave what is stored as it was.
C8_NotFound ==
    [][/\ (UpdateStep /\ localStorage.kind # "corrupt"
                /\ NoMatch(localStorage.tasks, last'.id)) =>
                /\ ~last'.db.threw
                /\ last'.db.ret.t = "null"
                /\ last'.res = Resolved(Fail("Task not found"))
                /\ localStorage' = localStorage
       /\ (GetTaskStep /\ localStorage.kind # "corrupt"
                /\ NoMatch(localStorage.tasks, last'.id)) =>
                /\ ~last'.db.threw
                /\ last'.db.ret.t = "undefined"
                /\ last'.res = Resolved(Fail("Task not found"))
                /\ localStorage' = localStorage]_vars

\* C8 witness: an update was asked for an id that a delete had removed
C8_Witness ==
    /\ last.op = "updateTask"
    /\ last.id = "1"
    /\ last.db.ret.t = "null"
    /\ ~last.res.value.success
    /\ localStorage.kind = "json"
    /\ Len(localStorage.tasks) = 4

\* C9: on a stored collection delete reports success; it removes exactly one
\* record, the one with the id, when the id is present, changes nothing when
\* it is absent, and a second delete of the same id changes nothing.
C9_DeleteOnce ==
    [][(DeleteStep /\ localStorage.kind = "json") =>
             LET old == localStorage.tasks
                 new == localStorage'.tasks
                 id == last'.id
             IN  /\ last'.db.ret.t = "true"
                 /\ last'.res.value.success
                 /\ IF NoMatch(old, id)
                    THEN new = old
                    ELSE /\ Len(new) = Len(old) - 1
                         /\ \E i \in 1..Len(old) :
                               /\ StrictEq(old[i].id, ParseInt(id))
                               /\ new = SubSeq(old, 1, i - 1) \o SubSeq(old, i + 1, Len(old))
                 /\ deleteTask(localStorage', id).store = localStorage']_vars

\* C10: every access-layer call settles to an envelope, and to one with
\* success=false when the storage layer threw during the call.
C10_NeverRejects ==
    last.op \in {"getTasks", "getTask", "createTask", "updateTask", "deleteTask"} =>
       /\ last.res.settled = "resolved"
       /\ last.db.threw => ~last.res.value.success

\* C11: getAll never throws: it returns the stored collection when one is
\* stored and an empty array when nothing is stored or the stored text does
\* not parse.
C11_GetAllNeverThrows ==
    last.op = "getTasks" =>
       /\ ~last.db.threw
       /\ last.db.ret.t = "list"
       /\ last.db.ret.v = IF localStorage.kind = "json" THEN localStorage.tasks ELSE <<>>

\* what a settled call's envelope says was done to the collection
Applied(tasks, e) ==
    IF e.res.settled # "resolved" \/ ~e.res.value.success THEN tasks
    ELSE CASE e.op = "createTask" -> Append(tasks, e.res.value.data.v)
           [] e.op = "updateTask" ->
                 [i \in 1..Len(tasks) |->
                     IF Hit(tasks, e.id, i) THEN e.res.value.data.v ELSE tasks[i]]
           [] e.op = "deleteTask" ->
                 SelectSeq(tasks, LAMBDA task : ~StrictEq(task.id, ParseInt(e.id)))
           [] OTHER -> tasks

\* the envelopes of `log` applied one after another to `tasks`
RECURSIVE Replay(_, _)
Replay(tasks, log) ==
    IF log = <<>> THEN tasks ELSE Replay(Applied(tasks, Head(log)), Tail(log))

\* C12: whatever calls are started while others are suspended, the stored
\* collection is the seeded one with the successful creates, updates and
\* deletes applied one after another in the order their delays expired: no
\* mutation that reported success is lost or applied to an older collection.
C12_NoLostUpdate ==
    localStorage.kind = "json" => localStorage.tasks = Replay(sampleTasks, done)

\* C12 witness: two mutations that were suspended at the same time have both
\* reported success
C12_Witness ==
    /\ localStorage.kind = "json"
    /\ \E i, j \in 1..Len(done) :
          /\ i < j
          /\ done[j].at < i
          /\ {done[i].op, done[j].op} \subseteq {"createTask", "updateTask", "deleteTask"}
          /\ done[i].res.value.success
          /\ done[j].res.value.success

\* C13: every call that was started is suspended or has settled (none is
\* dropped), and each settled call has settled to an envelope.
C13_SettlesToEnvelope ==
    /\ \A n \in 1..(Len(pending) + Len(done)) :
          \/ \E i \in 1..Len(pending) : pending[i].n = n
          \/ \E i \in 1..Len(done) : done[i].n = n
    /\ \A i \in 1..Len(done) : done[i].res.settled = "resolved"

\* the members of a task array
Members(tasks) == {tasks[i] : i \in 1..Len(tasks)}

\* the task passes the active status filter
PassesFilter(task) ==
    \/ app.currentFilter = "all"
    \/ app.currentFilter = "pending" /\ task.status = "Pending"
    \/ app.currentFilter = "completed" /\ task.status = "Completed"

\* the text in the search box is blank or occurs, whatever the case of its
\* letters, in the task's title or description
PassesSearch(task) ==
    \/ Trim(app.search) = ""
    \/ Includes(ToLowerCase(task.title), ToLowerCase(app.search))
    \/ Includes(ToLowerCase(task.description), ToLowerCase(app.search))

\* C14: the filtered view holds exactly the cached tasks that pass the active
\* status filter and match the text in the search box
C14_ViewIsFilterAndSearch ==
    Members(app.filteredTasks) =
        {task \in Members(app.tasks) : PassesFilter(task) /\ PassesSearch(task)}

\* C15: every stored task has a non-empty title, and a submit of the task form
\* or the edit form whose title is empty or blank starts no call and leaves
\* the storage as it is
C15_TitlesNonEmpty ==
    /\ [](localStorage.kind = "json" =>
             \A i \in 1..Len(localStorage.tasks) : localStorage.tasks[i].title # "")
    /\ [][\A title \in TitleInputs :
             Trim(title) = "" /\ (HandleTaskSubmit(title) \/ HandleEditTaskSubmit(title))
                => pending' = pending /\ localStorage' = localStorage]_vars

\* a blank submit was turned away and a submitted task is stored, its title
\* trimmed
C15_Witness ==
    /\ app.titleError
    /\ localStorage.kind = "json"
    /\ \E i \in 1..Len(localStorage.tasks) : localStorage.tasks[i].title = "Write report"

\* the stored status of the task the id argument names ("" when none does)
StoredStatus(ls, id) ==
    IF ls.kind = "json" /\ FindIndex(ls.tasks, ParseInt(id)) # 0
    THEN ls.tasks[FindIndex(ls.tasks, ParseInt(id))].status
    ELSE ""

\* the step in which the update of a status toggle is applied with success
ToggleApplied ==
    /\ pending # <<>>
    /\ Head(pending).k = "toggle"
    /\ pending' # pending
    /\ Len(pending') <= Len(pending)
    /\ last'.op = "updateTask"
    /\ last'.res.value.success

\* C16: a toggle whose update succeeds leaves the task with the other status
\* than the one stored when the update is applied
C16_ToggleFlipsStored ==
    [][ToggleApplied =>
          StoredStatus(localStorage', Head(pending).id)
             # StoredStatus(localStorage, Head(pending).id)]_vars

\* the records held under the storage key
Records(ls) == IF ls.kind = "json" THEN ls.tasks ELSE <<>>

\* two task arrays hold the same records the same number of times
SameRecords(a, b) ==
    \A r \in Members(a) \cup Members(b) :
       Cardinality({i \in 1..Len(a) : a[i] = r}) = Cardinality({i \in 1..Len(b) : b[i] = r})

\* C17: when init has finished and no handler awaits a call, the cached
\* collection holds exactly the records in storage
C17_CacheIsStorage ==
    app.ready /\ pending = <<>> => SameRecords(app.tasks, Records(localStorage))

\* two handlers have run to their end: a submitted task is stored, task 1 is
\* deleted, and the cache holds the stored records in another order
C17_Witness ==
    /\ app.ready /\ pending = <<>>
    /\ localStorage.kind = "json"
    /\ FindIndex(localStorage.tasks, 1) = 0
    /\ FindIndex(localStorage.tasks, 6) # 0
    /\ app.tasks # localStorage.tasks

====
